---- MODULE Spec2Model ----
(***************************************************************************)
(* The scene manager of wallverine (src/src/SceneManager.ts): the single   *)
(* scene, its timed fade to a pending scene, and the three-layer           *)
(* composition, with the lifecycle hooks each call fires and the draw      *)
(* calls each frame makes.                                                 *)
(*                                                                         *)
(* A Scene is identified by its name.  Every Scene of the model defines    *)
(* both optional hooks, so `x.onEnter?.()` / `x.onExit?.()` is recorded    *)
(* as a hook call whenever x is not null.                                  *)
(***************************************************************************)
EXTENDS Integers, Sequences, FiniteSets, TLC

\* Scene objects handed to the manager (three of the scenes of scenes.ts).
Scenes == {"particles", "spiral", "waves"}

\* `name` of a Scene object.
SceneName(s) == s

\* A null / undefined Scene reference.
NoScene == "null"

\* The keys of a LayeredScene, in the order the manager visits them.
Layers == <<"background", "middle", "foreground">>

LayerNames == {Layers[i] : i \in 1..Len(Layers)}

\* A slot name outside the three: the parameter's type is erased at run time,
\* and updateLayer tests nothing.
InvalidLayerNames == {"top"}

\* this.layeredScene = null
NoLayers == [isNull |-> TRUE]

\* The object literal {} of updateLayer.
EmptyLayers == [background |-> NoScene, middle |-> NoScene, foreground |-> NoScene]

\* The LayeredScene objects passed to setLayeredScene: each key absent
\* (NoScene) or a Scene.
LayeredScenes ==
  { EmptyLayers,
    [EmptyLayers EXCEPT !.background = "particles"],
    [EmptyLayers EXCEPT !.middle = "spiral", !.foreground = "waves"],
    [background |-> "particles", middle |-> "spiral", foreground |-> "waves"],
    [EmptyLayers EXCEPT !.background = "waves", !.foreground = "waves"] }

\* private transitionDuration = 1000; // ms
transitionDuration == 1000

\* this.transitionProgress += 16; // roughly 60fps
FrameStep == 16

\* The step the counter takes in update(time): the code adds 16 and does
\* not read time.
Tick_FromTime(time) == time

Tick_Stalled(time) == time - time

Tick(time) == FrameStep

\* if (this.isTransitioning) this.transitionProgress += 16, without the guard.
Advance_Unguarded(tp, active, time) == tp + Tick(time)

\* if (this.isTransitioning) this.transitionProgress += 16
Advance(tp, active, time) == IF active THEN tp + Tick(time) ELSE tp

\* Frame-to-frame timestamp deltas of requestAnimationFrame, in ms:
\* a 60 Hz display alone, and a 120 Hz and a 30 Hz display.
NominalDeltas == {16}

FrameDeltas == {8, 32}

VARIABLES
  currentScene,        \* private currentScene: Scene | null
  layeredScene,        \* private layeredScene: LayeredScene | null
  isLayeredMode,       \* private isLayeredMode
  transitionProgress,  \* private transitionProgress
  isTransitioning,     \* private isTransitioning
  nextScene,           \* private nextScene: Scene | null
  hooks,               \* the hook calls made by the last call, in order
  call,                \* the last call made on the manager
  frame,               \* the canvas operations of the last update, in order
  elapsedMs,           \* ms from the first frame of the transition to the last frame
  trans,               \* the transition started last, while no setter followed it
  discard,             \* the pending scene that the last setter call overrode
  wasLayered,          \* isLayeredMode as it was before the last call
  globalAlpha,         \* this.ctx.globalAlpha when the last call returned
  raised,              \* whether a hook threw out of the last call
  animationSpeed,      \* export let animationSpeed (scenes.ts), in tenths
  command,             \* the last command the app handled
  twin,                \* a second manager, given the same calls at other frame times
  passed               \* the object the caller passed to setLayeredScene last

vars == <<currentScene, layeredScene, isLayeredMode, transitionProgress,
          isTransitioning, nextScene, hooks, call, frame, elapsedMs, trans,
          discard, wasLayered, globalAlpha, raised, animationSpeed, command,
          twin, passed>>

\* The state of the app around the manager.
app == <<animationSpeed, command>>

\* What lies outside the manager: the app, the second manager and the
\* caller's object.
outside == <<app, twin, passed>>

\* The manager, its canvas context and the record of its last call.
manager == <<currentScene, layeredScene, isLayeredMode, transitionProgress,
             isTransitioning, nextScene, hooks, call, frame, elapsedMs, trans,
             discard, wasLayered, globalAlpha, raised>>

engine == <<currentScene, layeredScene, isLayeredMode, transitionProgress,
            isTransitioning, nextScene>>

----------------------------------------------------------------------------
\* Hook calls.

Enter(s) == [hook |-> "onEnter", scene |-> s]

Exit(s) == [hook |-> "onExit", scene |-> s]

\* x?.onEnter?.() and x?.onExit?.()
OptEnter(s) == IF s = NoScene THEN <<>> ELSE <<Enter(s)>>

OptExit(s) == IF s = NoScene THEN <<>> ELSE <<Exit(s)>>

\* Calls on the manager.
NoCall == [op |-> "new", scene |-> NoScene, withTransition |-> FALSE,
           layer |-> "none", layered |-> NoLayers]

SetSceneCall(s, w) == [NoCall EXCEPT !.op = "setScene", !.scene = s,
                                     !.withTransition = w]

SetLayeredSceneCall(l) == [NoCall EXCEPT !.op = "setLayeredScene", !.layered = l]

UpdateLayerCall(layer, s) == [NoCall EXCEPT !.op = "updateLayer", !.layer = layer,
                                            !.scene = s]

UpdateCall == [NoCall EXCEPT !.op = "update"]

NoTrans == [isNull |-> TRUE]

\* No object passed to setLayeredScene yet.
NoPassed == [isNull |-> TRUE]

NoDiscard == [isNull |-> TRUE]

\* A setter call c made while a transition is in flight overrides it: target is
\* the scene that was pending, op the setter, and for setScene scene is its
\* argument and outgoing the scene that was current.
Overrides(c) ==
  IF isTransitioning
    THEN [target |-> nextScene, op |-> c.op, withTransition |-> c.withTransition,
          scene |-> IF c.op = "setScene" THEN c.scene ELSE NoScene,
          outgoing |-> IF c.op = "setScene" THEN currentScene ELSE NoScene]
    ELSE NoDiscard

----------------------------------------------------------------------------
\* The canvas operations of a frame.  alpha is ctx.globalAlpha, as a numerator
\* over AlphaOne; blend is ctx.globalCompositeOperation.

AlphaOne == transitionDuration * transitionDuration * transitionDuration

Animate(s, alpha, blend) == [op |-> "animate", scene |-> s, alpha |-> alpha,
                             blend |-> blend]

FillRect(alpha) == [op |-> "fillRect", scene |-> NoScene, alpha |-> alpha,
                    blend |-> "source-over"]

\* Math.min(this.transitionProgress / this.transitionDuration, 1), as a
\* numerator over transitionDuration.
Progress(tp) == IF tp < transitionDuration THEN tp ELSE transitionDuration

\* A completion test that is met one frame early.
ProgressComplete_Early(tp) == Progress(tp) + FrameStep >= transitionDuration

\* progress >= 1
ProgressComplete(tp) == Progress(tp) >= transitionDuration

\* An easing that is the linear progress itself.
EaseProgress_Linear(tp) ==
  Progress(tp) * (AlphaOne \div transitionDuration)

\* easeProgress = 1 - Math.pow(1 - progress, 3), as a numerator over AlphaOne.
EaseProgress(tp) ==
  LET r == transitionDuration - Progress(tp) IN AlphaOne - r * r * r

\* this.ctx.globalAlpha = 1 - easeProgress
FadeAlpha(tp) == AlphaOne - EaseProgress(tp)

\* The save / globalAlpha / globalCompositeOperation / animate / restore of a layer.
LayerAlpha(layer) ==
  CASE layer = "background" -> 6 * (AlphaOne \div 10)
    [] layer = "middle" -> 8 * (AlphaOne \div 10)
    [] layer = "foreground" -> AlphaOne

LayerBlend(layer) == IF layer = "middle" THEN "lighter" ELSE "source-over"

\* Calls on the canvas context, in the order the code makes them.
CtxCall(op) == [op |-> op, scene |-> NoScene, alpha |-> 0, blend |-> ""]

Save == CtxCall("save")

Restore == CtxCall("restore")

SetAlpha(a) == [CtxCall("globalAlpha") EXCEPT !.alpha = a]

SetBlend(b) == [CtxCall("globalCompositeOperation") EXCEPT !.blend = b]

CallAnimate(s) == [CtxCall("animate") EXCEPT !.scene = s]

CallFillRect == CtxCall("fillRect")

\* The context calls, in order: ctx is the context's globalAlpha and
\* globalCompositeOperation, stack its saved states, out the drawing done so
\* far, each fillRect and animate with the settings it is drawn under.
RECURSIVE Exec(_, _, _, _)
Exec(calls, ctx, stack, out) ==
  IF calls = <<>> THEN [ctx |-> ctx, stack |-> stack, out |-> out]
  ELSE LET c == Head(calls)
           rest == Tail(calls)
       IN CASE c.op = "save" -> Exec(rest, ctx, <<ctx>> \o stack, out)
            [] c.op = "restore" ->
                 IF stack = <<>> THEN Exec(rest, ctx, stack, out)
                 ELSE Exec(rest, Head(stack), Tail(stack), out)
            [] c.op = "globalAlpha" ->
                 Exec(rest, [ctx EXCEPT !.alpha = c.alpha], stack, out)
            [] c.op = "globalCompositeOperation" ->
                 Exec(rest, [ctx EXCEPT !.blend = c.blend], stack, out)
            [] c.op = "fillRect" ->
                 Exec(rest, ctx, stack,
                      Append(out, [FillRect(ctx.alpha) EXCEPT !.blend = ctx.blend]))
            [] c.op = "animate" ->
                 Exec(rest, ctx, stack,
                      Append(out, Animate(c.scene, ctx.alpha, ctx.blend)))

\* A layer drawn without saving and restoring the context around it.
LayerProgram_NoRestore(ls, layer) ==
  IF ls[layer] = NoScene
    THEN <<>>
    ELSE <<SetAlpha(LayerAlpha(layer)), SetBlend(LayerBlend(layer)),
           CallAnimate(ls[layer])>>

\* A layer drawn without the test that the slot is occupied.
LayerProgram_NoPresenceTest(ls, layer) ==
  <<Save, SetAlpha(LayerAlpha(layer)), SetBlend(LayerBlend(layer)),
    CallAnimate(ls[layer]), Restore>>

\* if (this.layeredScene.<layer>) { save; settings; animate; restore }
LayerProgram(ls, layer) ==
  IF ls[layer] = NoScene
    THEN <<>>
    ELSE <<Save>>
         \o (IF layer = "background"
               THEN <<SetAlpha(LayerAlpha(layer)), SetBlend(LayerBlend(layer))>>
               ELSE <<SetBlend(LayerBlend(layer)), SetAlpha(LayerAlpha(layer))>>)
         \o <<CallAnimate(ls[layer]), Restore>>

\* A render that visits the layers foreground first.
RenderProgram_ForegroundFirst(ls) ==
  <<CallFillRect>>
  \o LayerProgram(ls, "foreground") \o LayerProgram(ls, "middle")
  \o LayerProgram(ls, "background")
  \o <<SetBlend("source-over"), SetAlpha(AlphaOne)>>

\* The body of renderLayeredScene for a non-null composition.
RenderProgram(ls) ==
  <<CallFillRect>>
  \o LayerProgram(ls, "background") \o LayerProgram(ls, "middle")
  \o LayerProgram(ls, "foreground")
  \o <<SetBlend("source-over"), SetAlpha(AlphaOne)>>

\* The context as update hands it to the rendering branch.
CtxAt(alpha) == [alpha |-> alpha, blend |-> "source-over"]

renderLayeredScene(ls, alpha) ==
  IF ls = NoLayers
    THEN <<>>
    ELSE Exec(RenderProgram(ls), CtxAt(alpha), <<>>, <<>>).out

\* A rendering branch with `if` where the code has `else if`.
Render_BothPaths(cur, alpha) ==
  (IF isLayeredMode /\ layeredScene # NoLayers
     THEN renderLayeredScene(layeredScene, alpha)
     ELSE <<>>)
  \o (IF cur # NoScene THEN <<Animate(cur, alpha, "source-over")>> ELSE <<>>)

\* The rendering branch of update, with the scene that is current by then.
Render(cur, alpha) ==
  IF isLayeredMode /\ layeredScene # NoLayers
    THEN renderLayeredScene(layeredScene, alpha)
    ELSE IF cur # NoScene
      THEN <<Animate(cur, alpha, "source-over")>>
      ELSE <<>>

\* ctx.globalAlpha when update returns: renderLayeredScene ends by setting it
\* to 1 (line 164), and so does update while a transition is in flight (lines
\* 123-125); a single scene's animate leaves it as it finds it.
AlphaAfterRender(alpha, inBetween) ==
  IF inBetween \/ (isLayeredMode /\ layeredScene # NoLayers)
    THEN AlphaOne
    ELSE alpha

----------------------------------------------------------------------------
\* Hook sequences of the setters and of update.

\* A swap that skips the hooks when the new scene is the current one.
SwapHooks_Dedup(cur, scene) ==
  IF cur = scene THEN <<>> ELSE OptExit(cur) \o OptEnter(scene)

\* this.currentScene?.onExit?.(); this.currentScene = scene; scene.onEnter?.()
SwapHooks(cur, scene) == OptExit(cur) \o OptEnter(scene)

\* The three onExit calls on the previous layers.
ExitLayers(ls) ==
  IF ls = NoLayers
    THEN <<>>
    ELSE OptExit(ls.background) \o OptExit(ls.middle) \o OptExit(ls.foreground)

\* New layers entered foreground first.
EnterLayers_ForegroundFirst(ls) ==
  OptEnter(ls.foreground) \o OptEnter(ls.middle) \o OptEnter(ls.background)

\* The three onEnter calls on the new layers.
EnterLayers(ls) ==
  OptEnter(ls.background) \o OptEnter(ls.middle) \o OptEnter(ls.foreground)

\* The hooks setScene fires when the manager holds layers.
SetSceneLayerHooks(ls) == <<>>

\* A completion that enters the next scene before it exits the current one.
CompletionHooks_EnterFirst(cur, next) == OptEnter(next) \o OptExit(cur)

\* Transition complete: exit the current scene, enter the next one.
CompletionHooks(cur, next) == OptExit(cur) \o OptEnter(next)

----------------------------------------------------------------------------
\* Queries.

\* layers.join(' | ')
RECURSIVE Join(_)
Join(layers) ==
  IF layers = <<>> THEN ""
  ELSE IF Len(layers) = 1 THEN layers[1]
  ELSE layers[1] \o " | " \o Join(Tail(layers))

\* if (x) layers.push(`prefix:${x.name}`)
Label(prefix, s) == IF s = NoScene THEN <<>> ELSE <<prefix \o ":" \o SceneName(s)>>

\* A label list that names the slots foreground first.
LayerLabels_ForegroundFirst(ls) ==
  Label("fg", ls.foreground) \o Label("mid", ls.middle) \o Label("bg", ls.background)

\* The array `layers` of getCurrentSceneName.
LayerLabels(ls) ==
  Label("bg", ls.background) \o Label("mid", ls.middle) \o Label("fg", ls.foreground)

\* A name that is the pending scene's as soon as a transition starts.
getCurrentSceneName_Pending ==
  IF isLayeredMode /\ layeredScene # NoLayers
    THEN Join(LayerLabels(layeredScene))
    ELSE IF nextScene # NoScene THEN SceneName(nextScene)
    ELSE IF currentScene # NoScene THEN SceneName(currentScene)
    ELSE "none"

\* A name without the 'none' fallback.
getCurrentSceneName_NoFallback ==
  IF isLayeredMode /\ layeredScene # NoLayers
    THEN Join(LayerLabels(layeredScene))
    ELSE IF currentScene # NoScene THEN SceneName(currentScene) ELSE ""

getCurrentSceneName ==
  IF isLayeredMode /\ layeredScene # NoLayers
    THEN Join(LayerLabels(layeredScene))
    ELSE IF currentScene # NoScene /\ SceneName(currentScene) # ""
      THEN SceneName(currentScene)
      ELSE "none"

isInLayeredMode == isLayeredMode

----------------------------------------------------------------------------
Init ==
  /\ currentScene = NoScene
  /\ layeredScene = NoLayers
  /\ isLayeredMode = FALSE
  /\ transitionProgress = 0
  /\ isTransitioning = FALSE
  /\ nextScene = NoScene
  /\ hooks = <<>>
  /\ call = NoCall
  /\ frame = <<>>
  /\ elapsedMs = 0
  /\ trans = NoTrans
  /\ discard = NoDiscard
  /\ wasLayered = FALSE
  /\ globalAlpha = AlphaOne
  /\ raised = FALSE
  /\ animationSpeed = 10
  /\ command = ""
  /\ twin = [state |-> [currentScene |-> currentScene, layeredScene |-> layeredScene,
                        isLayeredMode |-> isLayeredMode,
                        transitionProgress |-> transitionProgress,
                        isTransitioning |-> isTransitioning,
                        nextScene |-> nextScene],
             hooks |-> hooks]
  /\ passed = NoPassed

\* A startTransition that records the pending scene and not the flag.
startTransition_NoFlag(next) ==
  /\ nextScene' = next
  /\ isTransitioning' = isTransitioning
  /\ transitionProgress' = 0

startTransition(next) ==
  /\ nextScene' = next
  /\ isTransitioning' = TRUE
  /\ transitionProgress' = 0

\* A branch test that forgets the withTransition flag.
StartsTransition_IgnoringFlag(withTransition) == currentScene # NoScene

\* A branch test that forgets to look for a current scene.
StartsTransition_WithoutCurrent(withTransition) == withTransition

\* Whether setScene takes the startTransition branch.
StartsTransition(withTransition) == withTransition /\ currentScene # NoScene

setScene(scene, withTransition) ==
  /\ isLayeredMode' = FALSE
  /\ layeredScene' = NoLayers
  /\ IF StartsTransition(withTransition)
       THEN /\ startTransition(scene)
            /\ currentScene' = currentScene
            /\ hooks' = SetSceneLayerHooks(layeredScene)
            /\ elapsedMs' = 0
            /\ trans' = [from |-> currentScene, to |-> scene, hooks |-> <<>>]
       ELSE /\ currentScene' = scene
            /\ hooks' = SetSceneLayerHooks(layeredScene)
                          \o SwapHooks(currentScene, scene)
            /\ UNCHANGED <<nextScene, isTransitioning, transitionProgress,
                           elapsedMs>>
            /\ trans' = NoTrans
  /\ call' = SetSceneCall(scene, withTransition)
  /\ discard' = Overrides(SetSceneCall(scene, withTransition))
  /\ frame' = <<>>
  /\ wasLayered' = isLayeredMode
  /\ raised' = FALSE
  /\ UNCHANGED globalAlpha

\* A setLayeredScene that leaves the mode flag as it is.
setLayeredScene_KeepsMode(layered) ==
  /\ isLayeredMode' = isLayeredMode
  /\ currentScene' = NoScene
  /\ hooks' = ExitLayers(layeredScene) \o EnterLayers(layered)
  /\ layeredScene' = layered
  /\ UNCHANGED <<nextScene, isTransitioning, transitionProgress, elapsedMs>>
  /\ call' = SetLayeredSceneCall(layered)
  /\ discard' = Overrides(SetLayeredSceneCall(layered))
  /\ trans' = NoTrans
  /\ frame' = <<>>
  /\ wasLayered' = isLayeredMode
  /\ raised' = FALSE
  /\ UNCHANGED globalAlpha

setLayeredScene(layered) ==
  /\ isLayeredMode' = TRUE
  /\ currentScene' = NoScene
  /\ hooks' = ExitLayers(layeredScene) \o EnterLayers(layered)
  /\ layeredScene' = layered
  /\ UNCHANGED <<nextScene, isTransitioning, transitionProgress, elapsedMs>>
  /\ call' = SetLayeredSceneCall(layered)
  /\ discard' = Overrides(SetLayeredSceneCall(layered))
  /\ trans' = NoTrans
  /\ frame' = <<>>
  /\ wasLayered' = isLayeredMode
  /\ raised' = FALSE
  /\ UNCHANGED globalAlpha

\* An assignment that builds a new composition holding the one slot.
AssignLayer_DropsOthers(ls, layer, scene) == [EmptyLayers EXCEPT ![layer] = scene]

\* An assignment that leaves the slot alone.
AssignLayer_Noop(ls, layer, scene) == ls

\* An assignment that ignores a null scene instead of deleting the slot.
AssignLayer_KeepsOnNull(ls, layer, scene) ==
  IF scene = NoScene THEN ls ELSE [ls EXCEPT ![layer] = scene]

\* The slot assignment of updateLayer on the composition ls: delete
\* this.layeredScene[layer], or this.layeredScene[layer] = scene, which adds
\* the key when layer is none of the three.
AssignLayer(ls, layer, scene) ==
  IF layer \in LayerNames
    THEN [ls EXCEPT ![layer] = scene]
    ELSE IF scene = NoScene
      THEN [k \in DOMAIN ls \ {layer} |-> ls[k]]
      ELSE (layer :> scene) @@ ls

\* The occupant that updateLayer exits: one of the three named branches, or
\* none.
OldOccupant(ls, layer) == IF layer \in LayerNames THEN ls[layer] ELSE NoScene

\* An updateLayer that does not exit the scene it replaces.
UpdateLayerHooks_NoExit(old, scene) == OptEnter(scene)

\* Exit old scene in this layer, then enter the new one (none for null).
UpdateLayerHooks(old, scene) == OptExit(old) \o OptEnter(scene)

updateLayer(layer, scene) ==
  LET ls == IF ~isLayeredMode THEN EmptyLayers ELSE layeredScene IN
  /\ isLayeredMode' = TRUE
  /\ currentScene' = IF ~isLayeredMode THEN NoScene ELSE currentScene
  /\ IF ls # NoLayers
       THEN /\ hooks' = UpdateLayerHooks(OldOccupant(ls, layer), scene)
            /\ layeredScene' = AssignLayer(ls, layer, scene)
       ELSE /\ hooks' = <<>>
            /\ layeredScene' = ls
  /\ UNCHANGED <<nextScene, isTransitioning, transitionProgress, elapsedMs>>
  /\ call' = UpdateLayerCall(layer, scene)
  /\ discard' = Overrides(UpdateLayerCall(layer, scene))
  /\ trans' = NoTrans
  /\ frame' = <<>>
  /\ wasLayered' = isLayeredMode
  /\ raised' = FALSE
  /\ UNCHANGED globalAlpha

\* update(time); dt is time minus the previous frame's timestamp.  The first
\* frame after startTransition (transitionProgress = 0) is where the elapsed
\* time of the transition is counted from.
update(dt) ==
  LET tp == transitionProgress + Tick(dt)
      completes == isTransitioning /\ ProgressComplete(tp)
      inBetween == isTransitioning /\ ~ProgressComplete(tp)
      cur == IF completes THEN nextScene ELSE currentScene
      fired == IF completes THEN CompletionHooks(currentScene, nextScene)
                            ELSE <<>>
      \* line 111, or the opacity the previous call left
      alpha == IF inBetween THEN FadeAlpha(tp) ELSE globalAlpha
  IN
  /\ transitionProgress' = Advance(transitionProgress, isTransitioning, dt)
  /\ currentScene' = cur
  /\ nextScene' = IF completes THEN NoScene ELSE nextScene
  /\ isTransitioning' = IF completes THEN FALSE ELSE isTransitioning
  /\ hooks' = fired
  /\ frame' = Render(cur, alpha)
  /\ globalAlpha' = AlphaAfterRender(alpha, inBetween)
  /\ raised' = FALSE
  /\ UNCHANGED <<layeredScene, isLayeredMode, discard>>
  /\ call' = UpdateCall
  /\ wasLayered' = isLayeredMode
  /\ elapsedMs' = IF ~isTransitioning THEN elapsedMs
                  ELSE IF transitionProgress = 0 THEN 0
                  ELSE elapsedMs + dt
  /\ trans' = IF trans = NoTrans THEN NoTrans
              ELSE [trans EXCEPT !.hooks = @ \o fired]

Next ==
  \/ \E s \in Scenes, w \in BOOLEAN : setScene(s, w) /\ UNCHANGED outside
  \/ \E l \in LayeredScenes : setLayeredScene(l) /\ UNCHANGED outside
  \/ \E layer \in LayerNames, s \in Scenes \cup {NoScene} :
       updateLayer(layer, s) /\ UNCHANGED outside
  \/ \E dt \in NominalDeltas : update(dt) /\ UNCHANGED outside

Spec == Init /\ [][Next]_vars

\* The single-scene calls alone, on displays of different refresh rates.
NextClock ==
  \/ \E s \in Scenes, w \in BOOLEAN : setScene(s, w) /\ UNCHANGED outside
  \/ \E dt \in FrameDeltas : update(dt) /\ UNCHANGED outside

SpecClock == Init /\ [][NextClock]_vars

----------------------------------------------------------------------------
\* Hooks that throw.  Each method is the sequence of its field assignments
\* and hook calls, in the order of the code; a hook that throws ends the
\* method there, with the assignments made so far.

EngineRec ==
  [currentScene |-> currentScene, layeredScene |-> layeredScene,
   isLayeredMode |-> isLayeredMode, transitionProgress |-> transitionProgress,
   isTransitioning |-> isTransitioning, nextScene |-> nextScene]

Set(field, value) == [kind |-> "set", field |-> field, value |-> value]

HookStmts(hs) == [i \in 1..Len(hs) |-> [kind |-> "hook", hook |-> hs[i]]]

\* The statements prog run on the fields st; fired are the hook calls made so
\* far, and the hook call number fail throws (0: none does).
RECURSIVE Run(_, _, _, _)
Run(prog, st, fired, fail) ==
  IF prog = <<>> THEN [state |-> st, hooks |-> fired, raised |-> FALSE]
  ELSE LET c == Head(prog) IN
       IF c.kind = "hook"
         THEN IF Len(fired) + 1 = fail
                THEN [state |-> st, hooks |-> Append(fired, c.hook), raised |-> TRUE]
                ELSE Run(Tail(prog), st, Append(fired, c.hook), fail)
         ELSE Run(Tail(prog), [st EXCEPT ![c.field] = c.value], fired, fail)

SetSceneProgram(st, scene, withTransition) ==
  <<Set("isLayeredMode", FALSE), Set("layeredScene", NoLayers)>>
  \o (IF withTransition /\ st.currentScene # NoScene
        THEN <<Set("nextScene", scene), Set("isTransitioning", TRUE),
               Set("transitionProgress", 0)>>
        ELSE HookStmts(OptExit(st.currentScene))
             \o <<Set("currentScene", scene)>>
             \o HookStmts(OptEnter(scene)))

SetLayeredSceneProgram(st, layered) ==
  <<Set("isLayeredMode", TRUE), Set("currentScene", NoScene)>>
  \o HookStmts(ExitLayers(st.layeredScene))
  \o <<Set("layeredScene", layered)>>
  \o HookStmts(EnterLayers(layered))

UpdateLayerProgram(st, layer, scene) ==
  LET ls == IF ~st.isLayeredMode THEN EmptyLayers ELSE st.layeredScene IN
  (IF ~st.isLayeredMode
     THEN <<Set("layeredScene", EmptyLayers), Set("isLayeredMode", TRUE),
            Set("currentScene", NoScene)>>
     ELSE <<>>)
  \o (IF ls = NoLayers
        THEN <<>>
        ELSE HookStmts(OptExit(OldOccupant(ls, layer)))
             \o <<Set("layeredScene", AssignLayer(ls, layer, scene))>>
             \o HookStmts(OptEnter(scene)))

\* The transition block of update (lines 95-113); the rendering follows it.
UpdateProgram(st, time) ==
  IF ~st.isTransitioning
    THEN <<>>
    ELSE <<Set("transitionProgress", st.transitionProgress + Tick(time))>>
         \o (IF ProgressComplete(st.transitionProgress + Tick(time))
               THEN HookStmts(OptExit(st.currentScene))
                    \o <<Set("currentScene", st.nextScene)>>
                    \o HookStmts(OptEnter(st.nextScene))
                    \o <<Set("nextScene", NoScene), Set("isTransitioning", FALSE)>>
               ELSE <<>>)

\* The statements of the call c on the fields st; an update is one at the
\* nominal frame time.
ProgramOf(c, st) ==
  CASE c.op = "setScene" -> SetSceneProgram(st, c.scene, c.withTransition)
    [] c.op = "setLayeredScene" -> SetLayeredSceneProgram(st, c.layered)
    [] c.op = "updateLayer" -> UpdateLayerProgram(st, c.layer, c.scene)
    [] c.op = "update" -> UpdateProgram(st, FrameStep)
    [] OTHER -> <<>>

\* How many times in a row the model lets the completing update throw.
MaxRethrows == 2

\* The call c in which hook call number k throws.
Throws(c, k) ==
  LET r == Run(ProgramOf(c, EngineRec), EngineRec, <<>>, k) IN
  /\ r.raised
  /\ c.op = "update" =>
       transitionProgress < transitionDuration + MaxRethrows * FrameStep
  /\ currentScene' = r.state.currentScene
  /\ layeredScene' = r.state.layeredScene
  /\ isLayeredMode' = r.state.isLayeredMode
  /\ transitionProgress' = r.state.transitionProgress
  /\ isTransitioning' = r.state.isTransitioning
  /\ nextScene' = r.state.nextScene
  /\ hooks' = r.hooks
  /\ raised' = TRUE
  /\ call' = c
  /\ frame' = <<>>
  /\ wasLayered' = isLayeredMode
  /\ discard' = IF c.op = "update" THEN discard ELSE Overrides(c)
  /\ trans' = NoTrans
  /\ UNCHANGED <<globalAlpha, elapsedMs>>

\* The scenes and compositions of the callers whose hooks may throw.
ThrowScenes == {"particles", "spiral"}

ThrowLayered ==
  { [EmptyLayers EXCEPT !.background = "particles"],
    [EmptyLayers EXCEPT !.background = "spiral", !.foreground = "particles"] }

ThrowCalls ==
  {SetSceneCall(s, w) : s \in ThrowScenes, w \in BOOLEAN}
  \cup {SetLayeredSceneCall(l) : l \in ThrowLayered}
  \cup {UpdateLayerCall(layer, s) : layer \in {"background", "foreground"},
                                    s \in {"spiral", NoScene}}
  \cup {UpdateCall}

NextThrow ==
  \/ \E s \in ThrowScenes, w \in BOOLEAN : setScene(s, w) /\ UNCHANGED outside
  \/ \E l \in ThrowLayered : setLayeredScene(l) /\ UNCHANGED outside
  \/ \E layer \in {"background", "foreground"}, s \in {"spiral", NoScene} :
       updateLayer(layer, s) /\ UNCHANGED outside
  \/ \E dt \in NominalDeltas : update(dt) /\ UNCHANGED outside
  \/ \E c \in ThrowCalls :
       \E k \in 1..Len(Run(ProgramOf(c, EngineRec), EngineRec, <<>>, 0).hooks) :
         Throws(c, k) /\ UNCHANGED outside

SpecThrow == Init /\ [][NextThrow]_vars

----------------------------------------------------------------------------
\* The app (src/src/main.ts) and the command parsers (src/src/scenes.ts).
\* Commands reach the handler in lower case (the voice controller lowers the
\* transcript, the keyboard shortcuts are lower-case literals), so that
\* toLowerCase() leaves them as they are.

\* command.includes(keyword)
Includes(s, k) ==
  \E i \in 1..(Len(s) - Len(k) + 1) : SubSeq(s, i, i + Len(k) - 1) = k

\* keywords.some(keyword => lowerCommand.includes(keyword))
IncludesSome(s, keywords) == \E i \in 1..Len(keywords) : Includes(s, keywords[i])

\* animationSpeed = Math.max(0.1, Math.min(3, speed)), in tenths.
setAnimationSpeed(speed) ==
  LET capped == IF speed < 30 THEN speed ELSE 30
  IN IF capped > 1 THEN capped ELSE 1

effectKeywords ==
  << <<"particle", "particles">>,
     <<"spiral", "spirals">>,
     <<"wave", "waves">>,
     <<"rainbow", "rainbows">>,
     <<"star", "stars">>,
     <<"lightning", "bolt", "electric">>,
     <<"geometry", "geometric", "shapes">>,
     <<"fire", "flames", "burning">>,
     <<"matrix", "digital", "code", "rain">>,
     <<"vortex", "swirl", "whirlpool", "tornado">>,
     <<"crystal", "crystals", "gem", "gems">>,
     <<"plasma", "energy", "field">>,
     <<"nebula", "cloud", "space", "cosmic">>,
     <<"circuit", "circuits", "electric", "board">>,
     <<"meteor", "meteors", "shooting", "comet">>,
     <<"aurora", "northern", "lights", "borealis">> >>

\* The primary name of every keyword list the command touches, in list order.
RECURSIVE MatchedEffects(_, _)
MatchedEffects(s, lists) ==
  IF lists = <<>> THEN <<>>
  ELSE (IF IncludesSome(s, Head(lists)) THEN <<Head(lists)[1]>> ELSE <<>>)
       \o MatchedEffects(s, Tail(lists))

parseEffectsFromCommand(s) == MatchedEffects(s, effectKeywords)

\* layer left undefined by parseLayerCommand
NoLayer == "undefined"

parseLayerCommand(s) ==
  [layer |->
     IF IncludesSome(s, <<"background", "behind", "back", "bg">>)
       THEN "background"
     ELSE IF IncludesSome(s, <<"foreground", "front", "top", "fg", "over", "above">>)
       THEN "foreground"
     ELSE IF IncludesSome(s, <<"middle", "mid", "center", "between">>)
       THEN "middle"
     ELSE NoLayer,
   action |->
     IF IncludesSome(s, <<"add", "put", "place", "overlay", "on top", "layer">>)
       THEN "add"
     ELSE IF IncludesSome(s, <<"clear", "remove", "delete", "empty", "clean">>)
       THEN "clear"
     ELSE "set",
   effects |-> parseEffectsFromCommand(s)]

\* effectMap[effect] of main.ts: the Scene, or undefined.
EffectScene(e) ==
  CASE e = "particle" -> "particles"
    [] e = "spiral" -> "spiral"
    [] e = "wave" -> "waves"
    [] e = "rainbow" -> "rainbow"
    [] e = "star" -> "stars"
    [] e = "lightning" -> "lightning"
    [] e = "geometry" -> "geometry"
    [] e = "fire" -> "fire"
    [] OTHER -> NoScene

\* effectNames.join('-')
RECURSIVE JoinDash(_)
JoinDash(names) ==
  IF names = <<>> THEN ""
  ELSE IF Len(names) = 1 THEN names[1]
  ELSE names[1] \o "-" \o JoinDash(Tail(names))

\* The Scene createDynamicCombination returns: clearScene when none of the
\* names is an effect it knows, else a new scene named after all of them.
createDynamicCombination(effects) ==
  IF \A i \in 1..Len(effects) : EffectScene(effects[i]) = NoScene
    THEN "clear"
    ELSE "combo-" \o JoinDash(effects)

\* The call handleLayeredCommand makes on the manager, NoCall for none.
handleLayeredCommand(info) ==
  IF info.action = "clear"
    THEN UpdateLayerCall(info.layer, NoScene)
  ELSE IF info.effects = <<>>
    THEN NoCall
  ELSE LET scene == IF Len(info.effects) = 1
                      THEN EffectScene(info.effects[1])
                      ELSE createDynamicCombination(info.effects)
       IN IF scene # NoScene THEN UpdateLayerCall(info.layer, scene) ELSE NoCall

\* The speed commands, handled first: the speed asked for, in tenths; 0 for
\* a command that is none of them.
SpeedCommand(s) ==
  IF IncludesSome(s, <<"faster", "speed up">>) THEN 40
  ELSE IF IncludesSome(s, <<"slower", "slow down">>) THEN 2
  ELSE IF Includes(s, "normal speed") THEN 10
  ELSE 0

\* The fullscreen, projection and HUD commands: they end the handler and
\* make no call on the manager.
DisplayCommand(s) ==
  IncludesSome(s, <<"fullscreen", "full screen", "projection mode",
                    "projection only", "hide hud", "hide interface", "show hud",
                    "show interface", "show controls", "toggle hud",
                    "toggle interface", "exit projection", "normal mode",
                    "windowed mode">>)

\* The scene of a command that names no effect: exact matches only.
ExactScene(s) ==
  CASE s \in {"particles", "particle", "awesome", "cool"} -> "particles"
    [] s \in {"spiral", "spirals"} -> "spiral"
    [] s \in {"waves", "wave"} -> "waves"
    [] s \in {"rainbow", "rainbows", "hello", "hi"} -> "rainbow"
    [] s \in {"stars", "star"} -> "stars"
    [] s \in {"lightning", "bolt"} -> "lightning"
    [] s \in {"geometry", "shapes"} -> "geometry"
    [] s \in {"fire", "flames"} -> "fire"
    [] OTHER -> NoScene

\* sceneManager.setScene(scene): withTransition takes its default, true.
DefaultSetScene(scene) ==
  IF scene = NoScene THEN NoCall ELSE SetSceneCall(scene, TRUE)

\* The call handleVoiceCommand makes on the manager for a command that is no
\* speed command, NoCall for none.
ManagerCallOf(s) ==
  IF IncludesSome(s, <<"clear", "reset">>) THEN DefaultSetScene("clear")
  ELSE IF DisplayCommand(s) THEN NoCall
  ELSE IF parseLayerCommand(s).layer # NoLayer
    THEN handleLayeredCommand(parseLayerCommand(s))
  ELSE LET effects == parseEffectsFromCommand(s) IN
       IF effects = <<>> THEN DefaultSetScene(ExactScene(s))
       ELSE IF Len(effects) = 1 THEN DefaultSetScene(EffectScene(effects[1]))
       ELSE DefaultSetScene(createDynamicCombination(effects))

\* The commands of the keyboard shortcuts and of the README.
Commands ==
  {"faster", "slower", "normal speed", "clear",
   "clear background", "clear middle", "clear foreground",
   "set background to stars", "add particles to foreground",
   "put fire in middle", "remove the background", "waves"}

\* What the handler does with each command: the speed it asks for (0: none)
\* and the call it makes on the manager.
Handled == [s \in Commands |-> [speed |-> SpeedCommand(s), call |-> ManagerCallOf(s)]]

handleVoiceCommand(s) ==
  /\ command' = s
  /\ UNCHANGED <<twin, passed>>
  /\ IF Handled[s].speed # 0
       THEN /\ animationSpeed' = setAnimationSpeed(Handled[s].speed)
            /\ UNCHANGED manager
       ELSE /\ UNCHANGED animationSpeed
            /\ LET c == Handled[s].call IN
               CASE c.op = "setScene" -> setScene(c.scene, c.withTransition)
                 [] c.op = "updateLayer" -> updateLayer(c.layer, c.scene)
                 [] OTHER -> UNCHANGED manager

\* new WallverineApp(): a new manager, then start() sets the particle scene
\* without a transition.
InitApp ==
  /\ currentScene = "particles"
  /\ layeredScene = NoLayers
  /\ isLayeredMode = FALSE
  /\ transitionProgress = 0
  /\ isTransitioning = FALSE
  /\ nextScene = NoScene
  /\ hooks = <<Enter("particles")>>
  /\ call = SetSceneCall("particles", FALSE)
  /\ frame = <<>>
  /\ elapsedMs = 0
  /\ trans = NoTrans
  /\ discard = NoDiscard
  /\ wasLayered = FALSE
  /\ globalAlpha = AlphaOne
  /\ raised = FALSE
  /\ animationSpeed = 10
  /\ command = ""
  /\ twin = [state |-> [currentScene |-> currentScene, layeredScene |-> layeredScene,
                        isLayeredMode |-> isLayeredMode,
                        transitionProgress |-> transitionProgress,
                        isTransitioning |-> isTransitioning,
                        nextScene |-> nextScene],
             hooks |-> hooks]
  /\ passed = NoPassed

\* A command, or a frame of the animation loop; command is the command the
\* last step handled, "" after a frame.
NextApp ==
  \/ \E s \in Commands : handleVoiceCommand(s)
  \/ \E dt \in NominalDeltas :
       update(dt) /\ command' = "" /\ UNCHANGED <<animationSpeed, twin, passed>>

SpecApp == InitApp /\ [][NextApp]_vars

\* Callers that also pass a slot name outside the three.
NextMisuse ==
  \/ \E s \in Scenes, w \in BOOLEAN : setScene(s, w) /\ UNCHANGED outside
  \/ \E layer \in LayerNames \cup InvalidLayerNames, s \in {"particles", NoScene} :
       updateLayer(layer, s) /\ UNCHANGED outside
  \/ \E dt \in NominalDeltas : update(dt) /\ UNCHANGED outside

SpecMisuse == Init /\ [][NextMisuse]_vars

----------------------------------------------------------------------------
\* The queries as calls.  Neither getCurrentSceneName nor isInLayeredMode has
\* an assignment, a hook call or a canvas call in its body.

Queries == {"getCurrentSceneName", "isInLayeredMode"}

QueryCall(op) == [NoCall EXCEPT !.op = op]

query(op) ==
  /\ call' = QueryCall(op)
  /\ hooks' = <<>>
  /\ frame' = <<>>
  /\ raised' = FALSE
  /\ wasLayered' = isLayeredMode
  /\ UNCHANGED engine
  /\ UNCHANGED <<elapsedMs, trans, discard, globalAlpha>>

NextQuery ==
  \/ \E s \in ThrowScenes, w \in BOOLEAN : setScene(s, w) /\ UNCHANGED outside
  \/ \E l \in ThrowLayered : setLayeredScene(l) /\ UNCHANGED outside
  \/ \E layer \in {"background", "foreground"}, s \in {"spiral", NoScene} :
       updateLayer(layer, s) /\ UNCHANGED outside
  \/ \E dt \in NominalDeltas : update(dt) /\ UNCHANGED outside
  \/ \E op \in Queries : query(op) /\ UNCHANGED outside

SpecQuery == Init /\ [][NextQuery]_vars

----------------------------------------------------------------------------
\* The animation loop.  start() calls update from requestAnimationFrame and
\* each frame requests the next (main.ts), so that a frame always follows.

Frame == \E dt \in NominalDeltas : update(dt) /\ UNCHANGED outside

NextLive ==
  \/ \E s \in ThrowScenes, w \in BOOLEAN : setScene(s, w) /\ UNCHANGED outside
  \/ setLayeredScene([EmptyLayers EXCEPT !.background = "particles"])
       /\ UNCHANGED outside
  \/ \E s \in {"spiral", NoScene} :
       updateLayer("foreground", s) /\ UNCHANGED outside
  \/ Frame

SpecLive == Init /\ [][NextLive]_vars /\ WF_vars(Frame)

----------------------------------------------------------------------------
\* Two managers given the same calls, the second with other frame times.
\* The second runs each call as its statements on the record of its fields.

TwinStep(c, time) ==
  LET prog == IF c.op = "update" THEN UpdateProgram(twin.state, time)
                                 ELSE ProgramOf(c, twin.state)
      r == Run(prog, twin.state, <<>>, 0)
  IN twin' = [state |-> r.state, hooks |-> r.hooks]

NextTwin ==
  \/ \E s \in Scenes, w \in BOOLEAN :
       setScene(s, w) /\ TwinStep(SetSceneCall(s, w), 0) /\ UNCHANGED <<app, passed>>
  \/ \E l \in ThrowLayered :
       /\ setLayeredScene(l) /\ TwinStep(SetLayeredSceneCall(l), 0)
       /\ UNCHANGED <<app, passed>>
  \/ \E layer \in {"background", "foreground"}, s \in {"spiral", NoScene} :
       /\ updateLayer(layer, s) /\ TwinStep(UpdateLayerCall(layer, s), 0)
       /\ UNCHANGED <<app, passed>>
  \/ \E dt \in NominalDeltas, time \in FrameDeltas :
       update(dt) /\ TwinStep(UpdateCall, time) /\ UNCHANGED <<app, passed>>

SpecTwin == Init /\ [][NextTwin]_vars

----------------------------------------------------------------------------
\* The caller's composition.  setLayeredScene stores the reference to the
\* caller's object (this.layeredScene = layered), and updateLayer assigns
\* and deletes properties of this.layeredScene: while the manager holds the
\* caller's object, updateLayer changes that object.  setScene and the
\* implicit switch of updateLayer replace the reference.

\* The caller's object after setLayeredScene(layered).
Pass(layered) == [original |-> layered, now |-> layered, held |-> TRUE]

\* The caller's object after the manager dropped its reference.
Release(p) == IF p = NoPassed THEN p ELSE [p EXCEPT !.held = FALSE]

\* The caller's object after updateLayer, ls being this.layeredScene after
\* the call and layered the mode before it.
Mutate(p, layered, ls) ==
  IF p = NoPassed THEN p
  ELSE IF ~layered THEN Release(p)
  ELSE IF p.held THEN [p EXCEPT !.now = ls]
  ELSE p

NextAlias ==
  \/ \E s \in ThrowScenes, w \in BOOLEAN :
       setScene(s, w) /\ passed' = Release(passed) /\ UNCHANGED <<app, twin>>
  \/ \E l \in ThrowLayered :
       setLayeredScene(l) /\ passed' = Pass(l) /\ UNCHANGED <<app, twin>>
  \/ \E layer \in {"background", "foreground"}, s \in {"spiral", NoScene} :
       /\ updateLayer(layer, s)
       /\ passed' = Mutate(passed, isLayeredMode, layeredScene')
       /\ UNCHANGED <<app, twin>>
  \/ \E dt \in NominalDeltas : update(dt) /\ UNCHANGED outside

SpecAlias == Init /\ [][NextAlias]_vars

----------------------------------------------------------------------------
\* Helpers of the properties.

Range(seq) == {seq[i] : i \in DOMAIN seq}

Count(seq, x) == Cardinality({i \in DOMAIN seq : seq[i] = x})

\* The number of places in which the manager holds r as active content: as
\* the current scene, and once for each layer slot r occupies.
Holds(r) ==
  (IF currentScene = r THEN 1 ELSE 0)
  + (IF layeredScene = NoLayers THEN 0
     ELSE Cardinality({l \in LayerNames : layeredScene[l] = r}))

\* The scenes a frame draws, in order.
RECURSIVE Drawn(_)
Drawn(ops) ==
  IF ops = <<>> THEN <<>>
  ELSE (IF Head(ops).op = "animate" THEN <<Head(ops).scene>> ELSE <<>>)
       \o Drawn(Tail(ops))

----------------------------------------------------------------------------
\* C1: every call changes each Renderable's (onEnter calls minus onExit calls)
\* by exactly the change in the number of places where it is active, so that
\* the difference is 1 while it is the current scene or occupies a slot and 0
\* otherwise.
C1_HooksMatchActivity ==
  [][\A r \in Scenes :
       Count(hooks', Enter(r)) - Count(hooks', Exit(r)) = Holds(r)' - Holds(r)]_vars

\* C2: setScene called in layered mode first fires onExit once on every
\* occupied layer, in background, middle, foreground order, and only then the
\* hooks of the single scene.
C2_LayersExitBeforeSingleEnters ==
  [][(isLayeredMode /\ call'.op = "setScene") =>
       LET exits == ExitLayers(layeredScene)
           n == Len(exits)
       IN /\ Len(hooks') >= n
          /\ SubSeq(hooks', 1, n) = exits
          /\ SubSeq(hooks', n + 1, Len(hooks'))
               \in {<<>>, SwapHooks(currentScene, call'.scene)}]_vars

\* C3: after setLayeredScene or updateLayer overrode a transition, no update
\* fires onEnter on the scene that was pending or makes it the current scene.
C3_LayersAbandonTransition ==
  (discard # NoDiscard /\ discard.op \in {"setLayeredScene", "updateLayer"}) =>
    /\ currentScene # discard.target
    /\ call.op = "update" => Enter(discard.target) \notin Range(hooks)

\* C4: a transition is still in flight after an update exactly when the frame
\* time elapsed since it started is below transitionDuration.
C4_CompletesOnElapsedTime ==
  (trans # NoTrans /\ call.op = "update") =>
    (isTransitioning <=> elapsedMs < transitionDuration)

\* C5: a transition from A to B that no setter interrupts fires nothing while
\* in flight and, once complete, has fired exactly A's onExit and then B's
\* onEnter, with B current, nothing pending and no transition active.
C5_TransitionExitsThenEnters ==
  trans # NoTrans =>
    /\ ~isLayeredMode
    /\ IF isTransitioning
         THEN /\ trans.hooks = <<>>
              /\ currentScene = trans.from
              /\ nextScene = trans.to
         ELSE /\ trans.hooks = <<Exit(trans.from), Enter(trans.to)>>
              /\ currentScene = trans.to
              /\ nextScene = NoScene

C5_Witness ==
  /\ trans # NoTrans
  /\ ~isTransitioning
  /\ call.op = "update"
  /\ trans.from # trans.to
  /\ hooks = <<Exit(trans.from), Enter(trans.to)>>

\* C6: right after setScene(s, false), getCurrentSceneName is the name of s.
C6_NameAfterPlainSetScene ==
  (call.op = "setScene" /\ ~call.withTransition) =>
    getCurrentSceneName = SceneName(call.scene)

C6_Witness ==
  /\ call.op = "setScene"
  /\ ~call.withTransition
  /\ Exit("particles") \in Range(hooks)
  /\ getCurrentSceneName = "spiral"

\* C7: after setScene(s, false) overrode a transition to p (p other than s),
\* s stays current through every later update, and no update fires p's onEnter.
C7_PlainSetSceneDiscardsPending ==
  (/\ discard # NoDiscard
   /\ discard.op = "setScene"
   /\ ~discard.withTransition
   /\ discard.target # discard.scene) =>
    /\ currentScene = discard.scene
    /\ call.op = "update" => Enter(discard.target) \notin Range(hooks)

\* C8: setScene(s, true) called while a transition is active makes s the
\* pending scene with the elapsed counter at zero and fires no hook, and the
\* scene that was pending (when it is neither s nor the current scene) gets no
\* hook and does not become current in any later update.
C8_NewTransitionReplacesPending ==
  (/\ discard # NoDiscard
   /\ discard.op = "setScene"
   /\ discard.withTransition) =>
    /\ call.op = "setScene" =>
         /\ nextScene = call.scene
         /\ isTransitioning
         /\ transitionProgress = 0
         /\ hooks = <<>>
    /\ discard.target \notin {discard.scene, discard.outgoing} =>
         /\ currentScene # discard.target
         /\ \A h \in Range(hooks) : h.scene # discard.target

\* C9: a frame inside a transition draws exactly one scene, the outgoing one.
C9_InBetweenFrameDrawsOutgoing ==
  (call.op = "update" /\ isTransitioning) =>
    /\ currentScene # NoScene
    /\ Drawn(frame) = <<currentScene>>

\* C10: in layered mode there is a composition and no current scene; in
\* single mode there is no composition.
C10_ModeSelectsContent ==
  /\ isLayeredMode => (layeredScene # NoLayers /\ currentScene = NoScene)
  /\ ~isLayeredMode => layeredScene = NoLayers

\* A transition is in flight with no current scene only in layered mode.
PendingWithoutCurrentOnlyInLayers ==
  (isTransitioning /\ currentScene = NoScene) => isLayeredMode

----------------------------------------------------------------------------
\* Helpers of the layer properties, written from the slots alone.

\* The occupied slots of a composition, background to foreground.
OccupiedLayers(ls) ==
  (IF ls.background # NoScene THEN <<"background">> ELSE <<>>)
  \o (IF ls.middle # NoScene THEN <<"middle">> ELSE <<>>)
  \o (IF ls.foreground # NoScene THEN <<"foreground">> ELSE <<>>)

\* Their occupants, in the same order.
Occupants(ls) == [i \in 1..Len(OccupiedLayers(ls)) |-> ls[OccupiedLayers(ls)[i]]]

AllSlotsEmpty(ls) == \A l \in LayerNames : ls[l] = NoScene

\* The opacity and blending each slot is to be drawn with: 0.6 and normal,
\* 0.8 and additive, 1.0 and normal.
SlotAlpha(l) ==
  CASE l = "background" -> 600000000
    [] l = "middle" -> 800000000
    [] l = "foreground" -> 1000000000

SlotBlend(l) ==
  CASE l = "background" -> "source-over"
    [] l = "middle" -> "lighter"
    [] l = "foreground" -> "source-over"

SlotPrefix(l) ==
  CASE l = "background" -> "bg"
    [] l = "middle" -> "mid"
    [] l = "foreground" -> "fg"

\* Contexts a layer may find: the one of this frame, and an additive faded one.
ProbeContexts(alpha) ==
  {[alpha |-> alpha, blend |-> "source-over"], [alpha |-> 1, blend |-> "lighter"]}

\* The description of a composition: prefix:name of each occupied slot,
\* background to foreground, with " | " between them.
Description(ls) ==
  LET b == IF ls.background # NoScene THEN "bg:" \o ls.background ELSE ""
      m == IF ls.middle # NoScene THEN "mid:" \o ls.middle ELSE ""
      f == IF ls.foreground # NoScene THEN "fg:" \o ls.foreground ELSE ""
      bm == IF b # "" /\ m # "" THEN b \o " | " \o m ELSE b \o m
  IN IF bm # "" /\ f # "" THEN bm \o " | " \o f ELSE bm \o f

----------------------------------------------------------------------------
\* C11: updateLayer fires onExit on the previous occupant of the slot, if any,
\* and then onEnter on the new occupant; given null it fires no onEnter.
C11_UpdateLayerExitsThenEnters ==
  [][call'.op = "updateLayer" =>
       LET old == IF isLayeredMode THEN layeredScene[call'.layer] ELSE NoScene
           new == call'.scene
       IN hooks' = (IF old = NoScene THEN <<>> ELSE <<Exit(old)>>)
                   \o (IF new = NoScene THEN <<>> ELSE <<Enter(new)>>)]_vars

C11_Witness ==
  /\ call.op = "updateLayer"
  /\ call.scene = "spiral"
  /\ hooks = <<Exit("particles"), Enter("spiral")>>

\* C12: setLayeredScene in layered mode fires onExit on every previous
\* occupant before any onEnter, then onEnter on the new occupants background
\* to foreground, and leaves exactly the new composition in the slots.
C12_SetLayeredExitsAllThenEnters ==
  [][(isLayeredMode /\ call'.op = "setLayeredScene") =>
       LET new == call'.layered
           n == Len(OccupiedLayers(layeredScene))
           k == Len(OccupiedLayers(new))
       IN /\ Len(hooks') = n + k
          /\ \A r \in Scenes :
               Count(SubSeq(hooks', 1, n), Exit(r))
                 = Cardinality({l \in LayerNames : layeredScene[l] = r})
          /\ \A i \in 1..k : hooks'[n + i] = Enter(Occupants(new)[i])
          /\ layeredScene' = new]_vars

C12_Witness ==
  /\ call.op = "setLayeredScene"
  /\ wasLayered
  /\ hooks = <<Exit("spiral"), Exit("waves"),
               Enter("particles"), Enter("spiral"), Enter("waves")>>

\* C13: a frame rendered in layered mode starts with the persistence fill and
\* then draws the occupied layers background, middle, foreground.
C13_LayerDrawOrder ==
  (call.op = "update" /\ isLayeredMode) =>
    /\ frame # <<>>
    /\ frame[1].op = "fillRect"
    /\ \A i \in 2..Len(frame) : frame[i].op = "animate"
    /\ Drawn(frame) = Occupants(layeredScene)

C13_Witness ==
  /\ call.op = "update"
  /\ isLayeredMode
  /\ Len(frame) = 4
  /\ Drawn(frame) = <<"particles", "spiral", "waves">>

\* C14: in a layered frame every occupied slot is drawn with its own opacity
\* and blending, and the calls of a layer leave the context's opacity and
\* blending as they found them.
C14_LayerSettingsDoNotLeak ==
  (call.op = "update" /\ isLayeredMode) =>
    LET occ == OccupiedLayers(layeredScene) IN
    /\ Len(frame) = Len(occ) + 1
    /\ \A i \in 1..Len(occ) :
         frame[i + 1] = [op |-> "animate", scene |-> layeredScene[occ[i]],
                         alpha |-> SlotAlpha(occ[i]), blend |-> SlotBlend(occ[i])]
    /\ \A l \in LayerNames : \A c \in ProbeContexts(frame[1].alpha) :
         LET r == Exec(LayerProgram(layeredScene, l), c, <<>>, <<>>)
         IN r.ctx = c /\ r.stack = <<>>

C14_Witness ==
  /\ call.op = "update"
  /\ isLayeredMode
  /\ Len(frame) = 4
  /\ frame[2].alpha = 600000000
  /\ frame[3].blend = "lighter"
  /\ frame[4].alpha = 1000000000

\* C15: an unoccupied slot makes no context call at all, so a layered frame
\* holds the fill and one draw for each occupied slot, and nothing else.
C15_AbsentLayerIsNoOp ==
  (call.op = "update" /\ isLayeredMode) =>
    /\ Len(frame) = 1 + Cardinality({l \in LayerNames : layeredScene[l] # NoScene})
    /\ \A i \in 1..Len(frame) : frame[i].op = "animate" => frame[i].scene # NoScene
    /\ \A l \in LayerNames : layeredScene[l] = NoScene =>
         \A c \in ProbeContexts(frame[1].alpha) :
           Exec(LayerProgram(layeredScene, l), c, <<>>, <<>>)
             = [ctx |-> c, stack |-> <<>>, out |-> <<>>]

C15_Witness ==
  /\ call.op = "update"
  /\ isLayeredMode
  /\ layeredScene.middle = NoScene
  /\ Drawn(frame) = <<"waves", "waves">>

\* C16: updateLayer called in single mode leaves the manager in layered mode
\* with the given scene at the given slot as the whole composition, and with
\* no current scene.
C16_UpdateLayerSwitchesToLayers ==
  (call.op = "updateLayer" /\ ~wasLayered) =>
    /\ isInLayeredMode
    /\ layeredScene = [EmptyLayers EXCEPT ![call.layer] = call.scene]
    /\ currentScene = NoScene

C16_Witness ==
  /\ call.op = "updateLayer"
  /\ ~wasLayered
  /\ call.layer = "middle"
  /\ layeredScene = [EmptyLayers EXCEPT !.middle = "spiral"]
  /\ isTransitioning

\* C17: in layered mode getCurrentSceneName lists the occupied slots as
\* prefix:name, background to foreground, joined by " | "; background
\* particles with foreground spiral reads "bg:particles | fg:spiral".
C17_LayeredDescription ==
  isLayeredMode =>
    /\ getCurrentSceneName = Description(layeredScene)
    /\ layeredScene = [EmptyLayers EXCEPT !.background = "particles",
                                          !.foreground = "spiral"]
         => getCurrentSceneName = "bg:particles | fg:spiral"

C17_Witness ==
  /\ call.op = "updateLayer"
  /\ call.layer = "foreground"
  /\ isInLayeredMode
  /\ getCurrentSceneName = "bg:particles | fg:spiral"

\* C18: updateLayer(slot, null) on an occupied slot fires the occupant's
\* onExit once and nothing else, empties the slot, stays in layered mode, and
\* the slot's label is gone from getCurrentSceneName.
C18_NullRemovesOccupant ==
  [][(/\ isLayeredMode
      /\ call'.op = "updateLayer"
      /\ call'.scene = NoScene
      /\ layeredScene[call'.layer] # NoScene) =>
       /\ hooks' = <<Exit(layeredScene[call'.layer])>>
       /\ layeredScene'[call'.layer] = NoScene
       /\ isLayeredMode'
       /\ \A s \in Scenes :
            (SlotPrefix(call'.layer) \o ":" \o s)
              \notin Range(LayerLabels(layeredScene'))
       /\ getCurrentSceneName' = Description(layeredScene')]_vars

C18_Witness ==
  /\ call.op = "updateLayer"
  /\ call.scene = NoScene
  /\ call.layer = "background"
  /\ hooks = <<Exit("particles")>>
  /\ getCurrentSceneName = "mid:spiral | fg:waves"

\* C19: with no content active (single mode without a current scene, or
\* layered mode with three empty slots) getCurrentSceneName is "none".
C19_NoneWhenNothingActive ==
  (\/ ~isLayeredMode /\ currentScene = NoScene
   \/ isLayeredMode /\ layeredScene # NoLayers /\ AllSlotsEmpty(layeredScene)) =>
    getCurrentSceneName = "none"

\* C20: update called with no current scene and no occupied slot does the
\* persistence fill and nothing else, and fires no hook.
C20_UpdateWithNothingActive ==
  [][(/\ call'.op = "update"
      /\ currentScene = NoScene
      /\ layeredScene = NoLayers \/ AllSlotsEmpty(layeredScene)) =>
       /\ Len(frame') = 1
       /\ frame'[1].op = "fillRect"
       /\ hooks' = <<>>]_vars

----------------------------------------------------------------------------
\* C21: a second setScene(s, false) right after setScene(s, false) with the
\* same scene fires onExit and then onEnter on that scene: the hooks are not
\* skipped when the new scene is the current one.
C21_SameSceneTwiceFiresHooks ==
  [][(/\ call.op = "setScene" /\ ~call.withTransition
      /\ call'.op = "setScene" /\ ~call'.withTransition
      /\ call'.scene = call.scene) =>
       /\ currentScene = call.scene
       /\ hooks' = <<Exit(call.scene), Enter(call.scene)>>
       /\ currentScene' = call.scene]_vars

C21_Witness ==
  /\ call = SetSceneCall("waves", FALSE)
  /\ currentScene = "waves"
  /\ hooks = <<Exit("waves"), Enter("waves")>>

\* C26: an update runs at most one rendering path: in layered mode the frame
\* is the fill and one draw per occupied slot, with no draw of a current
\* scene; in single mode it has no fill and at most the current scene's draw.
C26_OneRenderingPath ==
  call.op = "update" =>
    IF isLayeredMode /\ layeredScene # NoLayers
      THEN /\ Count(frame, [op |-> "fillRect", scene |-> NoScene,
                            alpha |-> frame[1].alpha, blend |-> "source-over"]) = 1
           /\ Drawn(frame) = Occupants(layeredScene)
           /\ Len(frame) = 1 + Len(Occupants(layeredScene))
      ELSE /\ \A i \in 1..Len(frame) : frame[i].op # "fillRect"
           /\ Len(frame) <= 1
           /\ Drawn(frame) \in {<<>>, <<currentScene>>}

C26_Witness ==
  /\ call.op = "update"
  /\ isLayeredMode
  /\ currentScene = "spiral"
  /\ Drawn(frame) = <<"particles">>

\* C27: on every in-between frame of a transition, in single and in layered
\* mode alike, whatever the frame draws is drawn at the fade opacity
\* 1 - eased, and ctx.globalAlpha is back to 1 when update returns.
C27_InBetweenFrameFades ==
  (call.op = "update" /\ isTransitioning) =>
    LET r == transitionDuration - transitionProgress IN
    /\ \A i \in 1..Len(frame) :
         frame[i].op = "animate" => frame[i].alpha = r * r * r
    /\ globalAlpha = AlphaOne

\* C28: in single mode with no transition active setScene(new, true) starts
\* a transition exactly when a current scene exists, leaving it current and
\* firing no hook; with no current scene it swaps at once, firing onEnter on
\* the new scene and starting no transition.  A transition of single mode
\* that reaches progress 1 leaves single mode with no transition active.
C28_SingleModeTransitions ==
  [][/\ (/\ ~isLayeredMode /\ ~isTransitioning
         /\ call'.op = "setScene" /\ call'.withTransition) =>
          IF currentScene # NoScene
            THEN /\ isTransitioning' /\ nextScene' = call'.scene
                 /\ transitionProgress' = 0
                 /\ currentScene' = currentScene
                 /\ hooks' = <<>>
                 /\ ~isLayeredMode'
            ELSE /\ ~isTransitioning' /\ nextScene' = NoScene
                 /\ currentScene' = call'.scene
                 /\ hooks' = <<Enter(call'.scene)>>
                 /\ ~isLayeredMode'
     /\ (/\ ~isLayeredMode /\ isTransitioning /\ call'.op = "update"
         /\ transitionProgress' >= transitionDuration) =>
          /\ ~isLayeredMode' /\ ~isTransitioning'
          /\ nextScene' = NoScene
          /\ currentScene' = nextScene]_vars

C28_Witness ==
  /\ call = SetSceneCall("spiral", TRUE)
  /\ ~wasLayered /\ discard = NoDiscard
  /\ isTransitioning /\ nextScene = "spiral" /\ currentScene = "particles"
  /\ hooks = <<>>

\* C29: on an in-between frame with progress p the opacity in force is
\* 1 - eased with eased = 1 - (1 - p)^3; it lies strictly between 0 and 1,
\* in single mode it is the opacity the outgoing scene is drawn with, and
\* from one in-between frame to the next it strictly decreases.
C29_FadeOpacityDecreases ==
  [][(call'.op = "update" /\ isTransitioning') =>
       LET one == 1000000000
           q == 1000 - transitionProgress'
           eased == one - q * q * q
           fade == one - eased
       IN /\ 0 < transitionProgress' /\ transitionProgress' < 1000
          /\ frame' # <<>>
          /\ frame'[1].alpha = fade
          /\ 0 < fade /\ fade < one
          /\ ~isLayeredMode' =>
               frame' = <<[op |-> "animate", scene |-> currentScene',
                           alpha |-> fade, blend |-> "source-over"]>>
          /\ (call.op = "update" /\ isTransitioning) =>
               frame'[1].alpha < frame[1].alpha]_vars

C29_Witness ==
  /\ call.op = "update"
  /\ isTransitioning /\ ~isLayeredMode
  /\ transitionProgress = 992
  /\ frame = <<[op |-> "animate", scene |-> "particles", alpha |-> 512,
                blend |-> "source-over"]>>

\* C30: a newly constructed manager is in single mode with no current scene,
\* no composition, no pending scene and no transition; isInLayeredMode is
\* false, getCurrentSceneName is "none", and update draws nothing and fires
\* no hook.
C30_NewManagerIsIdle ==
  [][call.op = "new" =>
       /\ ~isLayeredMode /\ ~isInLayeredMode
       /\ currentScene = NoScene /\ layeredScene = NoLayers
       /\ nextScene = NoScene /\ ~isTransitioning
       /\ getCurrentSceneName = "none"
       /\ call'.op = "update" =>
            /\ frame' = <<>> /\ hooks' = <<>>
            /\ engine' = engine
            /\ getCurrentSceneName' = "none"]_vars

C30_Witness ==
  /\ call.op = "update"
  /\ currentScene = NoScene /\ layeredScene = NoLayers /\ ~isLayeredMode
  /\ frame = <<>> /\ hooks = <<>>
  /\ getCurrentSceneName = "none"

----------------------------------------------------------------------------
\* C23: updateLayer called with a slot name outside background, middle,
\* foreground changes neither the mode, nor the composition, nor the current
\* scene, and fires no hook.
C23_InvalidSlotRejected ==
  [][(/\ call'.op = "updateLayer"
      /\ call'.layer \notin {"background", "middle", "foreground"}) =>
       /\ isLayeredMode' = isLayeredMode
       /\ layeredScene' = layeredScene
       /\ currentScene' = currentScene
       /\ hooks' = <<>>]_vars

----------------------------------------------------------------------------
\* The statement sequences agree with the actions: a call in which no hook
\* throws leaves the fields and the hook calls that its statements give.
ProgramsAgree ==
  [][~raised' =>
       LET r == Run(ProgramOf(call', EngineRec), EngineRec, <<>>, 0) IN
       /\ EngineRec' = r.state
       /\ hooks' = r.hooks]_vars

\* C22: when a hook throws out of setScene, setLayeredScene, updateLayer or
\* a completing update, the fields already hold the values the call leaves
\* when no hook throws, and an update that follows a throwing update fires
\* none of its hooks again.
C22_FailingHookLeavesFinalState ==
  [][/\ raised' =>
          EngineRec' = Run(ProgramOf(call', EngineRec), EngineRec, <<>>, 0).state
     /\ (raised /\ call.op = "update" /\ call'.op = "update") =>
          Range(hooks') \cap Range(hooks) = {}]_vars

----------------------------------------------------------------------------
\* C24: the command "clear background" ("clear middle", "clear foreground")
\* given in layered mode leaves the manager in layered mode, empties the
\* named slot and leaves the other two slots as they were.
C24_ClearCommandRemovesOneLayer ==
  [][(/\ command' \in {"clear background", "clear middle", "clear foreground"}
      /\ isLayeredMode) =>
       /\ isLayeredMode'
       /\ layeredScene' # NoLayers
       /\ \A l \in {"background", "middle", "foreground"} :
            layeredScene'[l] = IF command' = "clear " \o l THEN NoScene
                               ELSE layeredScene[l]]_vars

\* C25: "faster" sets the animation speed to 4, "slower" to 0.2 and
\* "normal speed" to 1 (in tenths: 40, 2, 10), and none of them changes the
\* manager's mode, current scene, composition or transition.
C25_SpeedCommands ==
  [][/\ command' = "faster" => animationSpeed' = 40 /\ engine' = engine
     /\ command' = "slower" => animationSpeed' = 2 /\ engine' = engine
     /\ command' = "normal speed" => animationSpeed' = 10 /\ engine' = engine]_vars

----------------------------------------------------------------------------
C33_TransitioningIffPending ==
  isTransitioning <=> nextScene # NoScene

C33_Witness ==
  /\ isTransitioning
  /\ nextScene = "waves"
  /\ isLayeredMode
  /\ call.op = "update"

\* C34: while a transition is active transitionProgress is a multiple of 16
\* in 0..992; the transition completes on the 63rd update after the setScene
\* that started it; transitionProgress never exceeds 1008.
C34_CompletesOnThe63rdUpdate ==
  [][/\ transitionProgress' % 16 = 0
     /\ transitionProgress' >= 0 /\ transitionProgress' <= 1008
     /\ isTransitioning' => transitionProgress' <= 992
     /\ (~isTransitioning /\ isTransitioning') =>
          call'.op = "setScene" /\ transitionProgress' = 0
     /\ (isTransitioning /\ ~isTransitioning') =>
          /\ call'.op = "update"
          /\ transitionProgress = 62 * 16
          /\ transitionProgress' = 63 * 16
          /\ elapsedMs' = 62 * 16
     /\ (isTransitioning /\ isTransitioning' /\ call'.op = "update") =>
          /\ transitionProgress' = transitionProgress + 16
          /\ transitionProgress' < 63 * 16
     /\ (isTransitioning' /\ call'.op \in {"setLayeredScene", "updateLayer"}) =>
          transitionProgress' = transitionProgress]_vars

C34_Witness ==
  /\ call.op = "update"
  /\ ~isTransitioning
  /\ transitionProgress = 1008
  /\ elapsedMs = 992
  /\ hooks = <<Exit("spiral"), Enter("waves")>>

\* C35: in single mode, from the setScene call that starts a transition and
\* through every in-between update getCurrentSceneName is the outgoing
\* scene's name; from the completing update on it is the incoming scene's.
C35_NameDuringTransition ==
  (trans # NoTrans /\ ~isLayeredMode) =>
    IF isTransitioning
      THEN getCurrentSceneName = trans.from /\ nextScene = trans.to
      ELSE getCurrentSceneName = trans.to /\ call.op = "update"

C35_Witness ==
  /\ trans # NoTrans
  /\ ~isLayeredMode /\ isTransitioning
  /\ call.op = "update"
  /\ transitionProgress = 992
  /\ getCurrentSceneName = "waves"
  /\ nextScene = "particles"

\* C39: isInLayeredMode is true after setLayeredScene and updateLayer, false
\* after setScene and on a new manager, and update leaves it as it is, so
\* that it tells which kind of setter was called last; and the mode flag is
\* true exactly when a composition is held.
C39_ModeFollowsLastSetter ==
  [][/\ call.op = "new" => ~isInLayeredMode
     /\ isLayeredMode <=> layeredScene # NoLayers
     /\ isLayeredMode' <=> layeredScene' # NoLayers
     /\ call'.op \in {"setLayeredScene", "updateLayer"} => isInLayeredMode'
     /\ call'.op = "setScene" => ~isInLayeredMode'
     /\ call'.op = "update" => isInLayeredMode' = isInLayeredMode]_vars

C39_Witness ==
  /\ call.op = "setLayeredScene"
  /\ ~wasLayered
  /\ isInLayeredMode
  /\ layeredScene = EmptyLayers
  /\ isTransitioning

\* C32: with the animation loop running, a transition that is active after
\* an update completes (the transition is inactive and its pending scene is
\* the current one) unless a setter is called first; and a transition stays
\* active for ever only if setScene with a transition starts it again and
\* again.
C32_TransitionsComplete ==
  /\ \A s \in ThrowScenes :
       (call.op = "update" /\ isTransitioning /\ nextScene = s)
         ~> ((~isTransitioning /\ currentScene = s) \/ call.op # "update")
  /\ []<>(\/ ~isTransitioning
          \/ /\ call.op = "setScene" /\ call.withTransition
             /\ isTransitioning /\ transitionProgress = 0)

C32_Witness ==
  /\ call.op = "update"
  /\ ~isTransitioning
  /\ isLayeredMode
  /\ transitionProgress = 1008
  /\ currentScene = "spiral"
  /\ hooks = <<Enter("spiral")>>

\* C36: an update made while no transition is active changes no field of the
\* manager and fires no hook; getCurrentSceneName and isInLayeredMode change
\* no field, fire no hook and draw nothing, in every state.
C36_IdleUpdateAndQueriesChangeNothing ==
  [][/\ (call'.op = "update" /\ ~isTransitioning) =>
          UNCHANGED engine /\ hooks' = <<>>
     /\ call'.op \in Queries =>
          UNCHANGED engine /\ hooks' = <<>> /\ frame' = <<>>
                           /\ UNCHANGED globalAlpha]_vars

C36_Witness ==
  /\ call.op = "update"
  /\ ~isTransitioning
  /\ transitionProgress = 1008
  /\ isLayeredMode
  /\ layeredScene.background = "spiral"
  /\ hooks = <<>>

C38_CallersCompositionIntact ==
  passed # NoPassed => passed.now = passed.original

====
